---- MODULE Spec2Model ----
(***************************************************************************)
(* A model of promptlab's batch validation runner (batch.py), of the rules *)
(* engine it consults (rules_engine.py) and of the reply validator         *)
(* (validator.py).                                                         *)
(*                                                                         *)
(* Numbers.  Volatilities (sigma_cap, computed_vol) are integers in units  *)
(* of 1e-6, so VOL_TOLERANCE = 1e-6 is 1.  Multipliers of the rules pack   *)
(* are integers in hundredths.  Covariances are integers in units of 1e-8, *)
(* so that w^T Sigma w with w in whole percents is a variance in units of  *)
(* 1e-12, the square of a volatility in units of 1e-6.                     *)
(*                                                                         *)
(* Text.  A model reply is a sequence of tokens, each standing for a       *)
(* stretch of characters of the reply:                                     *)
(*   "{" "}" ","   the characters themselves                               *)
(*   "s"           a run of whitespace                                     *)
(*   "F"           a code fence, three backquotes                          *)
(*   "j"           the word json                                           *)
(*   "t"           prose: letters, no brace, no fence, no JSON value       *)
(*   "a"           a JSON array literal such as [1,2]                      *)
(*   "n"           a JSON number literal such as 7                         *)
(*   "w:"          the member key "weights" and its colon                  *)
(*   "o:"          another member key ("note") and its colon               *)
(*   "kc:" "kb:"   the member keys "w_cash", "w_bond", "w_equity" and      *)
(*   "ke:" "km:"   "w_commodity", each with its colon                      *)
(*   "true" "5.5"  the JSON literals of LiteralTokens, each written as in  *)
(*   "-5" "0" ...  the reply                                               *)
(*   "mOK" ...     the four weight members of a weights object, comma      *)
(*                 separated, with the values WeightsOf gives              *)
(***************************************************************************)
EXTENDS Integers, Sequences, FiniteSets, TLC

VARIABLES
    table,          \* the rows load_csv returns, in input order
    dry_run,        \* BatchRunner.dry_run
    use_csv,        \* BatchRunner.use_csv_constraints
    continue_from,  \* BatchRunner.continue_from
    results,        \* BatchRunner.results
    csvSink,        \* the data rows of results.csv in the output directory
    jsonlSink,      \* the records of batch.jsonl in the output directory
    i,              \* the index of the for loop of run_batch (0-based)
    pc,             \* where run_batch stands
    calls,          \* per row of the table, client.chat calls made in this run
    started,        \* rows whose run_single was entered in this run, in order
    report,         \* what generate_report returned in this run, or NoReport
    interrupted,    \* a KeyboardInterrupt was raised in this run's loop
    runs,           \* run_batch invocations so far on this output directory
    vIn,            \* the reply handed to Validator.validate on its own
    vCons,          \* the constraints handed to it
    vOut,           \* what it returned, or NotRun
    eIn,            \* the profile handed to RulesEngine.compute_constraints on its own
    eOut,           \* what its calls gave, in order
    dIn,            \* the weights handed to compare_weights on its own, and a shift of them
    dOut            \* the Deviations it gave: of the weights, then of the shifted weights

vars == <<table, dry_run, use_csv, continue_from, results, csvSink, jsonlSink,
          i, pc, calls, started, report, interrupted, runs, vIn, vCons, vOut,
          eIn, eOut, dIn, dOut>>

batchVars == <<table, dry_run, use_csv, continue_from, results, csvSink,
               jsonlSink, i, pc, calls, started, report, interrupted, runs>>

validateVars == <<vIn, vCons, vOut>>

engineVars == <<eIn, eOut>>

deviationVars == <<dIn, dOut>>

(***************************************************************************)
(* Bounds of the model.                                                    *)
(***************************************************************************)
MaxRows == 2

MaxRuns == 2

\* calls of compute_constraints on one profile
MaxCalls == 3

(***************************************************************************)
(* rules_engine.py: the rules pack (a fixture the engine loads) and        *)
(* compute_constraints.                                                    *)
(***************************************************************************)
LifeStages == {"A", "B"}

RiskLevels == {"C1", "C2", "C3"}

Needs == {"growth", "income"}

CASH_MIN_STAGE == [s \in LifeStages |-> IF s = "A" THEN 5 ELSE 10]

\* units of 1e-6
SIGMA_STAGE_MAX == [s \in LifeStages |-> IF s = "A" THEN 120000 ELSE 35000]

\* hundredths
M_RISK == [r \in RiskLevels |-> CASE r = "C3" -> 100 [] r = "C2" -> 200 [] OTHER -> 60]

RISK_ASSET_MAX_STAGE == [s \in LifeStages |-> IF s = "A" THEN 70 ELSE 90]

\* hundredths
K_RISK == [r \in RiskLevels |-> CASE r = "C3" -> 100 [] r = "C2" -> 55 [] OTHER -> 10]

\* hundredths
K_NEED_RISKASSET == [n \in Needs |-> IF n = "growth" THEN 110 ELSE 90]

CLIP == [sigma_cap_min |-> 30000, sigma_cap_max |-> 200000,
         risk_asset_max_min |-> 10, risk_asset_max_max |-> 90]

Max2(a, b) == IF a >= b THEN a ELSE b

Min2(a, b) == IF a <= b THEN a ELSE b

Abs(x) == IF x < 0 THEN -x ELSE x

\* a validate_inputs that tests the fields in another order: not the code,
\* C18 tells the two apart
validate_inputs_NeedFirst(life_stage, risk_level, need) ==
    IF need \notin Needs THEN "need"
    ELSE IF risk_level \notin RiskLevels THEN "risk_level"
    ELSE IF life_stage \notin LifeStages THEN "life_stage"
    ELSE "ok"

\* validate_inputs: "ok", or the field the ValueError names
validate_inputs(life_stage, risk_level, need) ==
    IF life_stage \notin LifeStages THEN "life_stage"
    ELSE IF risk_level \notin RiskLevels THEN "risk_level"
    ELSE IF need \notin Needs THEN "need"
    ELSE "ok"

\* a compute_constraints without the clamps: not the code, C16 tells the
\* two apart
compute_constraints_NoClip(life_stage, risk_level, need) ==
    [cash_min |-> CASH_MIN_STAGE[life_stage],
     sigma_cap |-> (SIGMA_STAGE_MAX[life_stage] * M_RISK[risk_level]) \div 100,
     risk_asset_max |->
         (RISK_ASSET_MAX_STAGE[life_stage] * K_RISK[risk_level]
             * K_NEED_RISKASSET[need]) \div 10000]

\* a compute_constraints that leaves the need multiplier out: not the code,
\* C17 tells the two apart
compute_constraints_NoNeed(life_stage, risk_level, need) ==
    [cash_min |-> CASH_MIN_STAGE[life_stage],
     sigma_cap |-> Max2(CLIP.sigma_cap_min,
                        Min2(CLIP.sigma_cap_max,
                             (SIGMA_STAGE_MAX[life_stage] * M_RISK[risk_level]) \div 100)),
     risk_asset_max |->
         Max2(CLIP.risk_asset_max_min * 100,
              Min2(CLIP.risk_asset_max_max * 100,
                   RISK_ASSET_MAX_STAGE[life_stage] * K_RISK[risk_level])) \div 100]

\* compute_constraints on a profile validate_inputs accepts
compute_constraints(life_stage, risk_level, need) ==
    LET raw_sigma == (SIGMA_STAGE_MAX[life_stage] * M_RISK[risk_level]) \div 100
        \* raw_risk in units of 1e-4 percent; int() truncates after the clamp
        raw_risk == RISK_ASSET_MAX_STAGE[life_stage] * K_RISK[risk_level]
                        * K_NEED_RISKASSET[need]
    IN  [cash_min |-> CASH_MIN_STAGE[life_stage],
         sigma_cap |-> Max2(CLIP.sigma_cap_min, Min2(CLIP.sigma_cap_max, raw_sigma)),
         risk_asset_max |->
             Max2(CLIP.risk_asset_max_min * 10000,
                  Min2(CLIP.risk_asset_max_max * 10000, raw_risk)) \div 10000]

\* rules_pack["enums"]: the allowed set of each profile field
enums ==
    [field \in {"life_stage", "risk_level", "need"} |->
        CASE field = "life_stage" -> LifeStages
          [] field = "risk_level" -> RiskLevels
          [] OTHER -> Needs]

\* a call of compute_constraints: the ValueError of validate_inputs, with the
\* field and the allowed set its message names, or the Constraints returned
ConstraintsOutcome(invalid, life_stage, risk_level, need) ==
    IF invalid # "ok"
    THEN [raised |-> "ValueError", field |-> invalid, valid |-> enums[invalid],
          constraints |-> <<>>]
    ELSE [raised |-> "", field |-> "", valid |-> {},
          constraints |-> <<compute_constraints(life_stage, risk_level, need)>>]

ComputeConstraintsCall(life_stage, risk_level, need) ==
    ConstraintsOutcome(validate_inputs(life_stage, risk_level, need),
                       life_stage, risk_level, need)

(***************************************************************************)
(* validator.py: JSON values, json.loads and the two regular expressions   *)
(* of _parse_json, on token sequences.                                     *)
(***************************************************************************)
WEIGHT_KEYS == <<"w_cash", "w_bond", "w_equity", "w_commodity">>

\* the keys of WEIGHT_KEYS
WeightKeySet == {WEIGHT_KEYS[n] : n \in 1..Len(WEIGHT_KEYS)}

EmptyMap == [k \in {} |-> 0]

\* A JSON value: kind is "dict", "list", "int", "float" or "bool"; m holds a
\* dict's members, v an int's value (a float's integer part, the fraction is
\* not 0; a bool's value as Python's arithmetic takes it, True is 1).
Dict(m) == [kind |-> "dict", m |-> m, v |-> 0]

ListVal == [kind |-> "list", m |-> EmptyMap, v |-> 0]

IntV(x) == [kind |-> "int", m |-> EmptyMap, v |-> x]

FloatV(x) == [kind |-> "float", m |-> EmptyMap, v |-> x]

BoolV(x) == [kind |-> "bool", m |-> EmptyMap, v |-> x]

\* the literals json.loads reads as numbers and booleans
IntLiterals ==
    [tok \in {"-5", "0", "5", "10", "18", "20", "25", "27", "50", "52", "120"} |->
        CASE tok = "-5" -> 0 - 5 [] tok = "0" -> 0 [] tok = "5" -> 5 [] tok = "10" -> 10
          [] tok = "18" -> 18 [] tok = "20" -> 20 [] tok = "25" -> 25 [] tok = "27" -> 27
          [] tok = "50" -> 50 [] tok = "52" -> 52 [] OTHER -> 120]

LiteralTokens == (DOMAIN IntLiterals) \cup {"true", "5.5"}

LiteralOf(tok) ==
    IF tok = "true" THEN BoolV(1)
    ELSE IF tok = "5.5" THEN FloatV(5)
    ELSE IntV(IntLiterals[tok])

\* the members a weight-members token stands for
WeightsOf(tok) ==
    CASE tok = "mOK"   -> [k \in {"w_cash", "w_bond", "w_equity", "w_commodity"} |->
                             IntV(CASE k = "w_cash" -> 5 [] k = "w_bond" -> 20
                                    [] k = "w_equity" -> 50 [] OTHER -> 25)]
      [] tok = "mSafe" -> [k \in {"w_cash", "w_bond", "w_equity", "w_commodity"} |->
                             IntV(CASE k = "w_cash" -> 10 [] k = "w_bond" -> 84
                                    [] k = "w_equity" -> 3 [] OTHER -> 3)]
      [] tok = "mLow"  -> [k \in {"w_cash", "w_bond", "w_equity", "w_commodity"} |->
                             IntV(CASE k = "w_cash" -> 0 [] k = "w_bond" -> 25
                                    [] k = "w_equity" -> 50 [] OTHER -> 25)]
      [] tok = "mMiss" -> [k \in {"w_cash", "w_equity", "w_commodity"} |->
                             IntV(CASE k = "w_cash" -> 5 [] k = "w_equity" -> 50
                                    [] OTHER -> 25)]
      [] OTHER         -> [k \in {"w_cash", "w_bond", "w_equity", "w_commodity"} |->
                             IF k = "w_cash" THEN FloatV(5)
                             ELSE IntV(CASE k = "w_bond" -> 20
                                         [] k = "w_equity" -> 50 [] OTHER -> 25)]

MemberTokens == {"mOK", "mSafe", "mLow", "mMiss", "mFloat"}

KeyOf(tok) ==
    CASE tok = "w:" -> "weights"
      [] tok = "kc:" -> "w_cash"
      [] tok = "kb:" -> "w_bond"
      [] tok = "ke:" -> "w_equity"
      [] tok = "km:" -> "w_commodity"
      [] OTHER -> "note"

KeyTokens == {"w:", "o:", "kc:", "kb:", "ke:", "km:"}

\* dict.update: the later member wins
Merge(a, b) ==
    [k \in (DOMAIN a) \cup (DOMAIN b) |-> IF k \in DOMAIN b THEN b[k] ELSE a[k]]

\* the first position at or after p that holds no whitespace (Len(t)+1: none)
RECURSIVE SkipWs(_, _)
SkipWs(t, p) ==
    IF p > Len(t) THEN Len(t) + 1
    ELSE IF t[p] = "s" THEN SkipWs(t, p + 1) ELSE p

ParseFail == [ok |-> FALSE, val |-> ListVal, next |-> 0]

Parsed(val, next) == [ok |-> TRUE, val |-> val, next |-> next]

\* a member whose key is the token tok and whose value parsed as v
KeyedMember(tok, acc, v) ==
    IF v.ok THEN Parsed(Dict(Merge(acc, [k \in {KeyOf(tok)} |-> v.val])), v.next)
    ELSE ParseFail

\* the JSON decoder's rules for a value, an object and its members, each
\* [ok, val, next]: the value read and the position after it
RECURSIVE ParseValue(_, _)
RECURSIVE ParseMembers(_, _, _)
\* after the member one: "}" ends the object, "," asks for another member
AfterMemberAt(t, one, r) ==
    IF r > Len(t) THEN ParseFail
    ELSE IF t[r] = "}" THEN Parsed(one.val, r + 1)
    ELSE IF t[r] = "," THEN ParseMembers(t, SkipWs(t, r + 1), one.val.m)
    ELSE ParseFail

AfterMember(t, one) ==
    IF one.ok THEN AfterMemberAt(t, one, SkipWs(t, one.next)) ELSE ParseFail

\* the member at p, merged into the members acc read so far
ParseMember(t, p, acc) ==
    IF p > Len(t) THEN ParseFail
    ELSE IF t[p] \in MemberTokens THEN Parsed(Dict(Merge(acc, WeightsOf(t[p]))), p + 1)
    ELSE IF t[p] \in KeyTokens THEN KeyedMember(t[p], acc, ParseValue(t, p + 1))
    ELSE ParseFail

ParseMembers(t, p, acc) == AfterMember(t, ParseMember(t, p, acc))

\* an object whose "{" was read, r the next position that is not whitespace
ParseObjectAt(t, r) ==
    IF r > Len(t) THEN ParseFail
    ELSE IF t[r] = "}" THEN Parsed(Dict(EmptyMap), r + 1)
    ELSE ParseMembers(t, r, EmptyMap)

ParseValueAt(t, q) ==
    IF q > Len(t) THEN ParseFail
    ELSE IF t[q] = "a" THEN Parsed(ListVal, q + 1)
    ELSE IF t[q] = "n" THEN Parsed(IntV(7), q + 1)
    ELSE IF t[q] \in LiteralTokens THEN Parsed(LiteralOf(t[q]), q + 1)
    ELSE IF t[q] = "{" THEN ParseObjectAt(t, SkipWs(t, q + 1))
    ELSE ParseFail

ParseValue(t, p) == ParseValueAt(t, SkipWs(t, p))

\* "Extra data" unless only whitespace follows the value
WholeText(t, v) == IF v.ok /\ SkipWs(t, v.next) > Len(t) THEN v ELSE ParseFail

\* json.loads: one value, whitespace around it, nothing else
json_loads(t) == WholeText(t, ParseValue(t, 1))

\* str.strip
RECURSIVE strip(_)
strip(t) ==
    IF t = <<>> THEN t
    ELSE IF Head(t) = "s" THEN strip(Tail(t))
    ELSE IF t[Len(t)] = "s" THEN strip(SubSeq(t, 1, Len(t) - 1))
    ELSE t

NoMatch == <<0, 0>>

MinOf(S) == CHOOSE q \in S : \A q2 \in S : q <= q2

\* the positions q of a "}" after p that whitespace and a fence follow
FenceClosers(t, p) ==
    {q \in (p + 1)..Len(t) :
        /\ t[q] = "}"
        /\ SkipWs(t, q + 1) <= Len(t)
        /\ t[SkipWs(t, q + 1)] = "F"}

\* the lazy .*? stops at the first closer
FencedGroup(p, closers) == IF closers = {} THEN NoMatch ELSE <<p, MinOf(closers)>>

FencedFrom(t, p) ==
    IF p <= Len(t) /\ t[p] = "{" THEN FencedGroup(p, FenceClosers(t, p)) ELSE NoMatch

\* ```(?:json)?\s*(\{.*?\})\s*``` matched from position s: the first and
\* the last position of the group
FencedAt(t, s) ==
    IF t[s] # "F" THEN NoMatch
    ELSE IF s + 1 <= Len(t) /\ t[s + 1] = "j" THEN FencedFrom(t, SkipWs(t, s + 2))
    ELSE FencedFrom(t, SkipWs(t, s + 1))

FirstFenced(t, starts) == IF starts = {} THEN NoMatch ELSE FencedAt(t, MinOf(starts))

\* re.search of the fenced pattern: the leftmost start that matches
FencedSearch(t) == FirstFenced(t, {s \in 1..Len(t) : FencedAt(t, s) # NoMatch})

\* \{[^{}]*(?:\{[^{}]*\}[^{}]*)*\} from position p, depth braces open: the
\* position of the closing brace, 0 when the pattern fails from this start
RECURSIVE BraceEnd(_, _, _)
BraceEnd(t, p, depth) ==
    IF p > Len(t) THEN 0
    ELSE IF t[p] = "{" THEN (IF depth = 1 THEN BraceEnd(t, p + 1, 2) ELSE 0)
    ELSE IF t[p] = "}" THEN (IF depth = 1 THEN p ELSE BraceEnd(t, p + 1, 1))
    ELSE BraceEnd(t, p + 1, depth)

FirstBrace(t, starts) ==
    IF starts = {} THEN NoMatch
    ELSE <<MinOf(starts), BraceEnd(t, MinOf(starts) + 1, 1)>>

\* re.search of the brace pattern: the leftmost start that matches
BraceSearch(t) ==
    FirstBrace(t, {s \in 1..Len(t) : t[s] = "{" /\ BraceEnd(t, s + 1, 1) # 0})

\* the three attempts of _parse_json on the stripped text: the direct parse;
\* if the fenced pattern matches, the parse of its group, whatever it gives;
\* else if the brace pattern matches, the parse of the match
ParseCleaned(cleaned, direct, fenced, brace) ==
    IF direct.ok THEN direct
    ELSE IF fenced # NoMatch THEN json_loads(SubSeq(cleaned, fenced[1], fenced[2]))
    ELSE IF brace # NoMatch THEN json_loads(SubSeq(cleaned, brace[1], brace[2]))
    ELSE ParseFail

ParseStripped(cleaned) ==
    ParseCleaned(cleaned, json_loads(cleaned), FencedSearch(cleaned), BraceSearch(cleaned))

\* _parse_json: [ok, val]; ok FALSE is the ValueError validate catches
\* (json.JSONDecodeError is a ValueError)
_parse_json(response) == ParseStripped(strip(response))

(***************************************************************************)
(* validator.py: validate.                                                 *)
(***************************************************************************)
Null == <<>>

Some(x) == <<x>>

\* units of 1e-6
VOL_TOLERANCE == 1

\* 0.001 in units of 1e-6
VolWarnBand == 1000

\* market_pack["sigma_ann"] (a fixture the engine loads), in ASSET_ORDER,
\* units of 1e-8
sigma_ann ==
    <<  <<400,     0,      0,      0>>,
        <<  0, 10000,   8000,      0>>,
        <<  0,  8000, 160000,  55200>>,
        <<  0,     0,  55200, 211600>>  >>

\* the largest k in lo..hi with k * k <= x
RECURSIVE FloorSqrtIn(_, _, _)
FloorSqrtIn(x, lo, hi) ==
    IF lo >= hi THEN lo
    ELSE LET mid == (lo + hi + 1) \div 2
         IN  IF mid * mid <= x THEN FloorSqrtIn(x, mid, hi)
             ELSE FloorSqrtIn(x, lo, mid - 1)

FloorSqrt(x) == FloorSqrtIn(x, 0, 46340)

\* _compute_ann_vol: w^T Sigma w in units of 1e-12; the volatility is its
\* square root, a real between FloorSqrt and CeilSqrt of it
_compute_ann_var(w) ==
    LET term(a, b) == w[WEIGHT_KEYS[a]].v * sigma_ann[a][b] * w[WEIGHT_KEYS[b]].v
        row(a) == term(a, 1) + term(a, 2) + term(a, 3) + term(a, 4)
    IN  row(1) + row(2) + row(3) + row(4)

NoChecks == [k \in {} |-> TRUE]

\* what validate hands back: raised names the exception that escapes it
\* ("" when it returns), the other fields are the ValidationResult
ValidationResult(success, weights, errors, warnings, vol, var, checks) ==
    [raised |-> "", success |-> success, weights |-> weights, errors |-> errors,
     warnings |-> warnings, computed_vol |-> vol, computed_var |-> var,
     constraints_satisfied |-> checks]

Raised(exc) ==
    [raised |-> exc, success |-> FALSE, weights |-> Null, errors |-> <<>>,
     warnings |-> <<>>, computed_vol |-> Null, computed_var |-> Null,
     constraints_satisfied |-> NoChecks]

\* the test of one weight that is in the dict; bool is a subclass of int,
\* so isinstance(True, int) holds
WeightError(w, key) ==
    IF w.kind \notin {"int", "bool"} THEN << <<"Weight is not an integer", key>> >>
    ELSE IF w.v < 0 \/ w.v > 100 THEN << <<"Weight out of range [0,100]", key>> >>
    ELSE <<>>

\* step 2 of validate for one key: no error, or the one error it appends
\* (key in a list is a search of its elements, which finds no key)
StructuralError(weights, key) ==
    IF ~(weights.kind = "dict" /\ key \in DOMAIN weights.m)
    THEN << <<"Missing weight", key>> >>
    ELSE WeightError(weights.m[key], key)

StructuralErrors(weights) ==
    StructuralError(weights, WEIGHT_KEYS[1]) \o StructuralError(weights, WEIGHT_KEYS[2])
        \o StructuralError(weights, WEIGHT_KEYS[3]) \o StructuralError(weights, WEIGHT_KEYS[4])

\* a validate whose cash and risk-asset checks are strict: not the code, C15
\* tells the two apart
NumericChecks_Strict(w, constraints, volUp) ==
    [k \in {"sum_100", "cash_min", "risk_asset_max", "sigma_cap"} |->
        CASE k = "sum_100" ->
                w["w_cash"].v + w["w_bond"].v + w["w_equity"].v + w["w_commodity"].v = 100
          [] k = "cash_min" -> w["w_cash"].v > constraints.cash_min
          [] k = "risk_asset_max" ->
                w["w_equity"].v + w["w_commodity"].v < constraints.risk_asset_max
          [] OTHER -> volUp <= constraints.sigma_cap + VOL_TOLERANCE]

\* steps 3 to 6 of validate: the four checks, on the weights w, the
\* variance var and its square roots rounded down and up
NumericChecks(w, constraints, volUp) ==
    [k \in {"sum_100", "cash_min", "risk_asset_max", "sigma_cap"} |->
        CASE k = "sum_100" ->
                w["w_cash"].v + w["w_bond"].v + w["w_equity"].v + w["w_commodity"].v = 100
          [] k = "cash_min" -> w["w_cash"].v >= constraints.cash_min
          [] k = "risk_asset_max" ->
                w["w_equity"].v + w["w_commodity"].v <= constraints.risk_asset_max
          [] OTHER -> volUp <= constraints.sigma_cap + VOL_TOLERANCE]

\* a validate that stops at the first failed check: not the code, C12 tells
\* the two apart
NumericErrors_FirstOnly(checks) ==
    IF ~checks["sum_100"] THEN << <<"Weights sum not 100", "">> >>
    ELSE IF ~checks["cash_min"] THEN << <<"Cash weight < minimum", "">> >>
    ELSE IF ~checks["risk_asset_max"] THEN << <<"Risk assets > maximum", "">> >>
    ELSE IF ~checks["sigma_cap"] THEN << <<"Portfolio volatility > cap", "">> >>
    ELSE <<>>

NumericErrors(checks) ==
    (IF checks["sum_100"] THEN <<>> ELSE << <<"Weights sum not 100", "">> >>)
    \o (IF checks["cash_min"] THEN <<>> ELSE << <<"Cash weight < minimum", "">> >>)
    \o (IF checks["risk_asset_max"] THEN <<>> ELSE << <<"Risk assets > maximum", "">> >>)
    \o (IF checks["sigma_cap"] THEN <<>> ELSE << <<"Portfolio volatility > cap", "">> >>)

\* a validate that warns of a volatility close to the cap from below only:
\* not the code, C14 tells the two apart
NumericWarnings_BelowCapOnly(w, constraints, volDown, volUp) ==
    (IF w["w_cash"].v = constraints.cash_min
     THEN <<"Cash weight at exact minimum">> ELSE <<>>)
    \o (IF w["w_equity"].v + w["w_commodity"].v = constraints.risk_asset_max
        THEN <<"Risk assets at exact maximum">> ELSE <<>>)
    \o (IF /\ volUp <= constraints.sigma_cap
           /\ volUp > constraints.sigma_cap - VolWarnBand
        THEN <<"Portfolio volatility very close to cap">> ELSE <<>>)

NumericWarnings(w, constraints, volDown, volUp) ==
    (IF w["w_cash"].v = constraints.cash_min
     THEN <<"Cash weight at exact minimum">> ELSE <<>>)
    \o (IF w["w_equity"].v + w["w_commodity"].v = constraints.risk_asset_max
        THEN <<"Risk assets at exact maximum">> ELSE <<>>)
    \o (IF /\ volDown < constraints.sigma_cap + VolWarnBand
           /\ volUp > constraints.sigma_cap - VolWarnBand
        THEN <<"Portfolio volatility very close to cap">> ELSE <<>>)

\* a validate that lets a warning fail the reply: not the code, C13 tells
\* the two apart
NumericResult_WarningsFail(weights, errors, warnings, volDown, var, checks) ==
    ValidationResult(errors = <<>> /\ warnings = <<>>, Some(weights), errors, warnings,
                     Some(volDown), Some(var), checks)

NumericResult(weights, errors, warnings, volDown, var, checks) ==
    ValidationResult(errors = <<>>, Some(weights), errors, warnings,
                     Some(volDown), Some(var), checks)

NumericChecked(weights, constraints, volDown, volUp, var, checks) ==
    NumericResult(weights, NumericErrors(checks),
                  NumericWarnings(weights.m, constraints, volDown, volUp),
                  volDown, var, checks)

NumericWithVol(weights, constraints, volDown, var) ==
    NumericChecked(weights, constraints, volDown,
                   IF volDown * volDown = var THEN volDown ELSE volDown + 1, var,
                   NumericChecks(weights.m, constraints,
                                 IF volDown * volDown = var THEN volDown ELSE volDown + 1))

NumericWithVar(weights, constraints, var) ==
    NumericWithVol(weights, constraints, FloorSqrt(var), var)

NumericPhase(weights, constraints) ==
    NumericWithVar(weights, constraints, _compute_ann_var(weights.m))

\* the error list of a reply no JSON was found in
ParseErrors == << <<"JSON parse error", "">> >>

\* step 2 of validate and what follows it
ValidateStructure(weights, errors, constraints) ==
    IF errors # <<>>
    THEN ValidationResult(FALSE, Some(weights), errors, <<>>, Null, Null, NoChecks)
    ELSE NumericPhase(weights, constraints)

\* weights = parsed.get("weights", {}); a number has no "in"
ValidateWeights(weights, constraints) ==
    IF weights.kind \notin {"dict", "list"} THEN Raised("TypeError")
    ELSE ValidateStructure(weights, StructuralErrors(weights), constraints)

\* step 1 of validate, on what _parse_json gave; only a dict has get
ValidateParsed(parsed, constraints) ==
    IF ~parsed.ok
    THEN ValidationResult(FALSE, Null, ParseErrors, <<>>, Null, Null, NoChecks)
    ELSE IF parsed.val.kind # "dict" THEN Raised("AttributeError")
    ELSE IF "weights" \in DOMAIN parsed.val.m
    THEN ValidateWeights(parsed.val.m["weights"], constraints)
    ELSE ValidateWeights(Dict(EmptyMap), constraints)

validate(response, constraints) == ValidateParsed(_parse_json(response), constraints)

(***************************************************************************)
(* batch.py: test cases, run_single, the sinks and the report.             *)
(***************************************************************************)
PENDING == "pending"

SUCCESS == "success"

VALIDATION_FAILED == "validation_failed"

API_ERROR == "api_error"

CONSTRAINT_MISMATCH == "constraint_mismatch"

BatchStatus == {PENDING, SUCCESS, VALIDATION_FAILED, API_ERROR, CONSTRAINT_MISMATCH}

ExpectedWeights(c, b, e, m) ==
    [k \in {"w_cash", "w_bond", "w_equity", "w_commodity"} |->
        CASE k = "w_cash" -> c [] k = "w_bond" -> b [] k = "w_equity" -> e [] OTHER -> m]

\* a BatchTestCase without its row_index, which is its place in the table
BatchTestCase(ls, rl, nd, sigma, cash, risk, exp) ==
    [life_stage |-> ls, risk_level |-> rl, need |-> nd, csv_sigma_cap |-> sigma,
     csv_cash_min |-> cash, csv_risk_asset_max |-> risk, expected |-> exp]

\* the rows the input tables of the model are made of: three rows whose
\* constraints agree with the rules engine, one whose risk_asset_max does
\* not, one whose life_stage is not of the enumeration, one whose sigma_cap
\* is 1e-6 above the engine's
RowKinds ==
    { BatchTestCase("A", "C3", "growth", 120000, 5, 77, ExpectedWeights(5, 20, 50, 25)),
      BatchTestCase("B", "C3", "income", 35000, 10, 81, ExpectedWeights(10, 80, 5, 5)),
      BatchTestCase("A", "C2", "income", 200000, 5, 34, ExpectedWeights(10, 80, 5, 5)),
      BatchTestCase("A", "C3", "growth", 120000, 5, 70, ExpectedWeights(5, 20, 50, 25)),
      BatchTestCase("Z", "C3", "growth", 120000, 5, 77, ExpectedWeights(5, 20, 50, 25)),
      BatchTestCase("A", "C3", "growth", 120001, 5, 77, ExpectedWeights(5, 20, 50, 25)) }

Tables == UNION {[1..n -> RowKinds] : n \in 0..MaxRows}

\* the replies client.chat returns in the model: a bare object, an object in
\* a fenced block after prose, an object breaking cash_min, prose, an array
BatchReplies ==
    { <<"{", "w:", "{", "mOK", "}", "}">>,
      <<"t", "s", "F", "j", "s", "{", "w:", "{", "mSafe", "}", "}", "s", "F">>,
      <<"{", "w:", "{", "mLow", "}", "}">>,
      <<"t">>,
      <<"a">> }

\* the 1e-6 of validate_constraint_consistency, in units of 1e-6
SigmaMatchTolerance == 1

\* a cross-check whose tolerance is inclusive: not the code, C19 tells the
\* two apart
validate_constraint_consistency_Inclusive(tc) ==
    LET computed == compute_constraints(tc.life_stage, tc.risk_level, tc.need)
        sigma_match == Abs(computed.sigma_cap - tc.csv_sigma_cap) <= SigmaMatchTolerance
        cash_match == computed.cash_min = tc.csv_cash_min
        risk_match == computed.risk_asset_max = tc.csv_risk_asset_max
    IN  [is_consistent |-> sigma_match /\ cash_match /\ risk_match,
         computed |-> computed]

\* validate_constraint_consistency, on a profile validate_inputs accepts
validate_constraint_consistency(tc) ==
    LET computed == compute_constraints(tc.life_stage, tc.risk_level, tc.need)
        sigma_match == Abs(computed.sigma_cap - tc.csv_sigma_cap) < SigmaMatchTolerance
        cash_match == computed.cash_min = tc.csv_cash_min
        risk_match == computed.risk_asset_max = tc.csv_risk_asset_max
    IN  [is_consistent |-> sigma_match /\ cash_match /\ risk_match,
         computed |-> computed]

Max4(a, b, c, d) == Max2(Max2(a, b), Max2(c, d))

\* a compare_weights whose total adds the signed differences: not the code,
\* C21 tells the two apart
compare_weights_SignedTotal(llm_weights, expected) ==
    LET d(k) == llm_weights.m[k].v - expected[k]
    IN  [w_cash_diff |-> d("w_cash"), w_bond_diff |-> d("w_bond"),
         w_equity_diff |-> d("w_equity"), w_commodity_diff |-> d("w_commodity"),
         total_abs_diff |-> d("w_cash") + d("w_bond") + d("w_equity")
                               + d("w_commodity"),
         max_single_diff |-> Max4(Abs(d("w_cash")), Abs(d("w_bond")),
                                  Abs(d("w_equity")), Abs(d("w_commodity")))]

\* a compare_weights whose total leaves the commodity difference out: not
\* the code, C22 tells the two apart
compare_weights_ThreeAssets(llm_weights, expected) ==
    LET d(k) == llm_weights.m[k].v - expected[k]
    IN  [w_cash_diff |-> d("w_cash"), w_bond_diff |-> d("w_bond"),
         w_equity_diff |-> d("w_equity"), w_commodity_diff |-> d("w_commodity"),
         total_abs_diff |-> Abs(d("w_cash")) + Abs(d("w_bond")) + Abs(d("w_equity")),
         max_single_diff |-> Max4(Abs(d("w_cash")), Abs(d("w_bond")),
                                  Abs(d("w_equity")), Abs(d("w_commodity")))]

\* compare_weights
compare_weights(llm_weights, expected) ==
    LET d(k) == llm_weights.m[k].v - expected[k]
    IN  [w_cash_diff |-> d("w_cash"), w_bond_diff |-> d("w_bond"),
         w_equity_diff |-> d("w_equity"), w_commodity_diff |-> d("w_commodity"),
         total_abs_diff |-> Abs(d("w_cash")) + Abs(d("w_bond")) + Abs(d("w_equity"))
                               + Abs(d("w_commodity")),
         max_single_diff |-> Max4(Abs(d("w_cash")), Abs(d("w_bond")),
                                  Abs(d("w_equity")), Abs(d("w_commodity")))]

\* BatchTestResult(test_case, status) with its defaults; row is the
\* test case's row_index
BatchTestResult(row, status) ==
    [row |-> row, status |-> status, computed_constraints |-> Null,
     constraint_match |-> FALSE, llm_weights |-> Null, llm_raw_response |-> Null,
     validation_success |-> FALSE, validation_errors |-> <<>>, computed_vol |-> Null,
     deviation |-> Null, api_latency_ms |-> Null, error_message |-> Null]

\* the else branch of step 1, given what validate_constraint_consistency
\* returned
CrossChecked(check) ==
    [raised |-> "", constraint_match |-> check.is_consistent,
     constraints |-> check.computed]

\* step 1 of run_single: raised names the exception that escapes it ("" for
\* none); constraints and constraint_match are what it leaves on the result
ConstraintStep(tc, csvMode) ==
    IF csvMode
    THEN [raised |-> "", constraint_match |-> TRUE,
          constraints |-> [sigma_cap |-> tc.csv_sigma_cap, cash_min |-> tc.csv_cash_min,
                           risk_asset_max |-> tc.csv_risk_asset_max]]
    ELSE IF validate_inputs(tc.life_stage, tc.risk_level, tc.need) # "ok"
    THEN [raised |-> "ValueError", constraint_match |-> FALSE,
          constraints |-> [sigma_cap |-> 0, cash_min |-> 0, risk_asset_max |-> 0]]
    ELSE CrossChecked(validate_constraint_consistency(tc))

\* the result as run_single holds it once step 1 is through
AfterConstraintStep(row, step) ==
    [BatchTestResult(row, PENDING) EXCEPT
        !.computed_constraints = Some(step.constraints),
        !.constraint_match = step.constraint_match]

Returned(result) == [kind |-> "return", result |-> result]

\* the mismatch and the preview returns of run_single
\* a run_single that tests preview mode before the mismatch: not the code's
\* order, C3 tells the two apart
HeadResult_PreviewFirst(step, preview, result) ==
    IF step.raised # "" THEN [kind |-> "raise", result |-> result]
    ELSE IF preview THEN Returned([result EXCEPT !.status = PENDING])
    ELSE IF ~step.constraint_match
    THEN Returned([result EXCEPT !.status = CONSTRAINT_MISMATCH,
                                 !.error_message = Some("Constraint mismatch")])
    ELSE [kind |-> "call", result |-> result]

HeadResult(step, preview, result) ==
    IF step.raised # "" THEN [kind |-> "raise", result |-> result]
    ELSE IF ~step.constraint_match
    THEN Returned([result EXCEPT !.status = CONSTRAINT_MISMATCH,
                                 !.error_message = Some("Constraint mismatch")])
    ELSE IF preview THEN Returned([result EXCEPT !.status = PENDING])
    ELSE [kind |-> "call", result |-> result]

HeadWith(row, step, preview) ==
    HeadResult(step, preview, AfterConstraintStep(row, step))

\* run_single up to the external call: what it returns when it returns
\* before the call, kind "call" when it goes on to client.chat, kind "raise"
\* when an exception escapes
RunSingleHead(row, tc, csvMode, preview) ==
    HeadWith(row, ConstraintStep(tc, csvMode), preview)

\* the except branch of step 3: client.chat raised
ApiErrorResult(result) ==
    Returned([result EXCEPT !.status = API_ERROR, !.error_message = Some("str(e)")])

RunSingleApiError(row, tc, csvMode) ==
    ApiErrorResult(AfterConstraintStep(row, ConstraintStep(tc, csvMode)))

\* what a BatchTestResult keeps of the validator's warnings: it has no field
\* for them
RetainedWarnings(result) == <<>>

\* steps 4 and 5 of run_single
Validated(result, validation) ==
    [result EXCEPT !.validation_success = validation.success,
                   !.validation_errors = validation.errors,
                   !.computed_vol = validation.computed_vol,
                   !.llm_weights = validation.weights]

\* a run_single that forgets the status of a failed validation: not the
\* code, C2 tells the two apart
TailResult_StatusUnset(tc, result, validation) ==
    IF validation.raised # "" THEN [kind |-> "raise", result |-> result]
    ELSE IF ~validation.success
    THEN Returned(Validated(result, validation))
    ELSE Returned([Validated(result, validation) EXCEPT
                      !.deviation = Some(compare_weights(validation.weights[1],
                                                         tc.expected)),
                      !.status = SUCCESS])

TailResult(tc, result, validation) ==
    IF validation.raised # "" THEN [kind |-> "raise", result |-> result]
    ELSE IF ~validation.success
    THEN Returned([Validated(result, validation) EXCEPT !.status = VALIDATION_FAILED])
    ELSE Returned([Validated(result, validation) EXCEPT
                      !.deviation = Some(compare_weights(validation.weights[1],
                                                         tc.expected)),
                      !.status = SUCCESS])

\* the try branch of step 3: the latency and the reply are kept
ApiReturned(result, response) ==
    [result EXCEPT !.api_latency_ms = Some("elapsed"),
                   !.llm_raw_response = Some(response)]

TailWith(row, tc, step, response) ==
    TailResult(tc, ApiReturned(AfterConstraintStep(row, step), response),
               validate(response, step.constraints))

\* steps 3 to 5 of run_single once client.chat returned response
RunSingleTail(row, tc, csvMode, response) ==
    TailWith(row, tc, ConstraintStep(tc, csvMode), response)

\* the row _save_result_row appends to results.csv
CsvRow(result) ==
    [row |-> result.row, status |-> result.status,
     total_diff |-> IF result.deviation # Null
                    THEN Some(result.deviation[1].total_abs_diff) ELSE Null]

\* the record _save_jsonl_row appends to batch.jsonl
JsonlRecord(result) ==
    [row |-> result.row, status |-> result.status,
     raw_response |-> result.llm_raw_response]

\* the test_case field of a result: the row of the table it was made for
TestCaseOf(result) == table[result.row + 1]

RECURSIVE SumSeq(_)
SumSeq(data) == IF Len(data) = 0 THEN 0 ELSE Head(data) + SumSeq(Tail(data))

RECURSIVE MaxSeq(_)
MaxSeq(data) ==
    IF Len(data) = 1 THEN Head(data) ELSE Max2(Head(data), MaxSeq(Tail(data)))

\* the integer nearest to num / den (num >= 0, den > 0), a tie going to the
\* even one as round() does
RoundDiv(num, den) ==
    LET q == num \div den
        twice == 2 * (num % den)
    IN  IF twice < den \/ (twice = den /\ q % 2 = 0) THEN q ELSE q + 1

\* round(statistics.mean(data), 2), in hundredths
mean(data) == RoundDiv(100 * SumSeq(data), Len(data))

\* statistics.median(data), in hundredths: the middle value, or the mean of
\* the two middle values
median(data) ==
    LET sorted == SortSeq(data, <)
        n == Len(data)
    IN  IF n % 2 = 1 THEN 100 * sorted[(n + 1) \div 2]
        ELSE 50 * (sorted[n \div 2] + sorted[n \div 2 + 1])

\* round(x, 2) in hundredths for x the square root of num / den: 10^4 x^2
\* has integer part q and fraction (10^4 num % den) / den
RoundSqrtOf(num, den, q) ==
    LET f == FloorSqrt(q)
        below == q < f * f + f \/ (q = f * f + f /\ 4 * ((10000 * num) % den) < den)
    IN  IF below THEN f ELSE f + 1

\* round(statistics.stdev(data), 2), in hundredths: the sample variance is
\* (n sum(x^2) - sum(x)^2) / (n (n - 1))
stdev(data) ==
    LET n == Len(data)
        squares == [j \in 1..n |-> data[j] * data[j]]
        num == n * SumSeq(squares) - SumSeq(data) * SumSeq(data)
    IN  RoundSqrtOf(num, n * (n - 1), (10000 * num) \div (n * (n - 1)))

\* deviation_stats: Null is the empty dict of a report without a SUCCESS
\* case; mean, median and std are in hundredths
DeviationStats(total_diffs, max_diffs) ==
    IF Len(total_diffs) = 0 THEN Null
    ELSE Some([count |-> Len(total_diffs),
               total_abs_diff |->
                   [mean |-> mean(total_diffs),
                    median |-> median(total_diffs),
                    max |-> MaxSeq(total_diffs),
                    std |-> IF Len(total_diffs) > 1 THEN stdev(total_diffs) ELSE 0],
               max_single_diff |->
                   [mean |-> mean(max_diffs), max |-> MaxSeq(max_diffs)],
               perfect_match_count |-> Cardinality({j \in 1..Len(total_diffs) : total_diffs[j] = 0}),
               within_5_pct_count |-> Cardinality({j \in 1..Len(total_diffs) : total_diffs[j] <= 5}),
               within_10_pct_count |-> Cardinality({j \in 1..Len(total_diffs) : total_diffs[j] <= 10})])

Successful(rs) == SelectSeq(rs, LAMBDA r : r.status = SUCCESS)

TotalDiffs(successful) ==
    [j \in 1..Len(successful) |-> successful[j].deviation[1].total_abs_diff]

MaxDiffs(successful) ==
    [j \in 1..Len(successful) |-> successful[j].deviation[1].max_single_diff]

\* the entry of one group of a breakdown: avg_diff, in hundredths, is Null
\* for the None of a group without a SUCCESS case
GroupStats(group, passed) ==
    [total |-> Len(group), pass |-> Len(passed),
     avg_diff |-> IF Len(passed) = 0 THEN Null ELSE Some(mean(TotalDiffs(passed)))]

GroupOf(rs, param, value) == SelectSeq(rs, LAMBDA r : TestCaseOf(r)[param] = value)

\* a breakdown that groups by life_stage whatever the parameter: not the
\* code, C24 tells the two apart
BreakdownBy_LifeStage(rs, param) ==
    [value \in {TestCaseOf(rs[j]).life_stage : j \in 1..Len(rs)} |->
        GroupStats(GroupOf(rs, "life_stage", value),
                   Successful(GroupOf(rs, "life_stage", value)))]

\* breakdown["by_" + param]: an entry for each value of param met in rs
BreakdownBy(rs, param) ==
    [value \in {TestCaseOf(rs[j])[param] : j \in 1..Len(rs)} |->
        GroupStats(GroupOf(rs, param, value), Successful(GroupOf(rs, param, value)))]

FailedCase(r) ==
    [row |-> r.row,
     params |-> <<TestCaseOf(r).life_stage, TestCaseOf(r).risk_level, TestCaseOf(r).need>>,
     status |-> r.status, errors |-> r.validation_errors,
     error_message |-> r.error_message]

\* generate_report: kind "error" is the {"error": "No results to report"}
\* marker, kind "report" the summary; kind "none" is no report at all
NoReport ==
    [kind |-> "none", total_cases |-> 0, status_breakdown |-> [k \in {} |-> 0],
     deviation_statistics |-> Null, breakdown |-> [k \in {} |-> 0],
     failed_cases |-> <<>>]

generate_report(rs) ==
    IF Len(rs) = 0
    THEN [NoReport EXCEPT !.kind = "error"]
    ELSE LET count(st) == Cardinality({j \in 1..Len(rs) : rs[j].status = st})
             \* a defaultdict: the statuses met, and "success", which the
             \* pass rate reads
             present == {rs[j].status : j \in 1..Len(rs)} \cup {SUCCESS}
             Failed(r) == r.status \notin {SUCCESS, PENDING}
             failed == SelectSeq(rs, Failed)
         IN  [kind |-> "report", total_cases |-> Len(rs),
              status_breakdown |-> [st \in present |-> count(st)],
              deviation_statistics |->
                  DeviationStats(TotalDiffs(Successful(rs)), MaxDiffs(Successful(rs))),
              breakdown |->
                  [by_life_stage |-> BreakdownBy(rs, "life_stage"),
                   by_risk_level |-> BreakdownBy(rs, "risk_level"),
                   by_need |-> BreakdownBy(rs, "need")],
              failed_cases |-> [j \in 1..Len(failed) |-> FailedCase(failed[j])]]

(***************************************************************************)
(* run_batch, step by step.  pc: "start" before the output files are set   *)
(* up; "loop" at the head of the for loop; "call" blocked in client.chat   *)
(* for row i; "save_csv" and "save_jsonl" before each append of the last   *)
(* result; "sleep" in the rate-limiting delay; "report" after the loop;    *)
(* "done" returned; "crashed" left by an exception.                        *)
(***************************************************************************)
total == Len(table)

test_case == table[i + 1]

NoCalls == [r \in 0..(MaxRows - 1) |-> 0]

\* run_batch up to its loop: the output directory is made, results.csv is
\* opened for writing and gets its header, self.results is emptied
RunBatchStart ==
    /\ pc = "start"
    /\ csvSink' = <<>>
    /\ results' = <<>>
    /\ i' = 0
    /\ pc' = "loop"
    /\ UNCHANGED <<table, dry_run, use_csv, continue_from, jsonlSink, calls, started,
                   report, interrupted, runs>>
    /\ UNCHANGED validateVars
    /\ UNCHANGED engineVars
    /\ UNCHANGED deviationVars

\* the continue of a row before continue_from
SkipRow ==
    /\ pc = "loop"
    /\ i < total
    /\ i < continue_from
    /\ i' = i + 1
    /\ UNCHANGED <<table, dry_run, use_csv, continue_from, results, csvSink, jsonlSink,
                   pc, calls, started, report, interrupted, runs>>
    /\ UNCHANGED validateVars
    /\ UNCHANGED engineVars
    /\ UNCHANGED deviationVars

\* what run_batch does with what run_single did: an exception leaves
\* run_batch (its except clause is for KeyboardInterrupt alone), a result is
\* appended to self.results
TakeOutcome(outcome) ==
    \/ /\ outcome.kind = "raise"
       /\ pc' = "crashed"
       /\ UNCHANGED <<results, calls>>
    \/ /\ outcome.kind = "return"
       /\ results' = Append(results, outcome.result)
       /\ pc' = "save_csv"
       /\ UNCHANGED calls
    \/ /\ outcome.kind = "call"
       /\ calls' = [calls EXCEPT ![i] = @ + 1]
       /\ pc' = "call"
       /\ UNCHANGED results

\* run_single(test_case) up to its return or to the external call, which is
\* then in flight
StartCase ==
    /\ pc = "loop"
    /\ i < total
    /\ i >= continue_from
    /\ started' = Append(started, i)
    /\ TakeOutcome(RunSingleHead(i, test_case, use_csv, dry_run))
    /\ UNCHANGED <<table, dry_run, use_csv, continue_from, csvSink, jsonlSink, i,
                   report, interrupted, runs>>
    /\ UNCHANGED validateVars
    /\ UNCHANGED engineVars
    /\ UNCHANGED deviationVars

\* client.chat returns a reply: the rest of run_single, and the append
ApiReturn ==
    /\ pc = "call"
    /\ \E response \in BatchReplies :
          TakeOutcome(RunSingleTail(i, test_case, use_csv, response))
    /\ UNCHANGED <<table, dry_run, use_csv, continue_from, csvSink, jsonlSink, i,
                   started, report, interrupted, runs>>
    /\ UNCHANGED validateVars
    /\ UNCHANGED engineVars
    /\ UNCHANGED deviationVars

\* client.chat raises an Exception
ApiFail ==
    /\ pc = "call"
    /\ TakeOutcome(RunSingleApiError(i, test_case, use_csv))
    /\ UNCHANGED <<table, dry_run, use_csv, continue_from, csvSink, jsonlSink, i,
                   started, report, interrupted, runs>>
    /\ UNCHANGED validateVars
    /\ UNCHANGED engineVars
    /\ UNCHANGED deviationVars

SaveResultRow ==
    /\ pc = "save_csv"
    /\ csvSink' = Append(csvSink, CsvRow(results[Len(results)]))
    /\ pc' = "save_jsonl"
    /\ UNCHANGED <<table, dry_run, use_csv, continue_from, results, jsonlSink, i,
                   calls, started, report, interrupted, runs>>
    /\ UNCHANGED validateVars
    /\ UNCHANGED engineVars
    /\ UNCHANGED deviationVars

\* _save_jsonl_row, then the test for the delay
SaveJsonlRow ==
    /\ pc = "save_jsonl"
    /\ jsonlSink' = Append(jsonlSink, JsonlRecord(results[Len(results)]))
    /\ IF ~dry_run /\ i < total - 1
       THEN pc' = "sleep" /\ i' = i
       ELSE pc' = "loop" /\ i' = i + 1
    /\ UNCHANGED <<table, dry_run, use_csv, continue_from, results, csvSink,
                   calls, started, report, interrupted, runs>>
    /\ UNCHANGED validateVars
    /\ UNCHANGED engineVars
    /\ UNCHANGED deviationVars

\* time.sleep(self.delay) returns
Sleep ==
    /\ pc = "sleep"
    /\ pc' = "loop"
    /\ i' = i + 1
    /\ UNCHANGED <<table, dry_run, use_csv, continue_from, results, csvSink, jsonlSink,
                   calls, started, report, interrupted, runs>>
    /\ UNCHANGED validateVars
    /\ UNCHANGED engineVars
    /\ UNCHANGED deviationVars

\* the for loop is exhausted
LoopEnd ==
    /\ pc = "loop"
    /\ i = total
    /\ pc' = "report"
    /\ UNCHANGED <<table, dry_run, use_csv, continue_from, results, csvSink, jsonlSink,
                   i, calls, started, report, interrupted, runs>>
    /\ UNCHANGED validateVars
    /\ UNCHANGED engineVars
    /\ UNCHANGED deviationVars

InTryBlock == pc \in {"loop", "call", "save_csv", "save_jsonl", "sleep"}

\* the user's interrupt: Python raises KeyboardInterrupt in the main thread
\* wherever it stands in the try block, and the except clause leaves the loop
\* a run_batch without its except clause, where the interrupt leaves the
\* function: not the code, C8 tells the two apart
KeyboardInterrupt_Uncaught ==
    /\ InTryBlock
    /\ interrupted' = TRUE
    /\ pc' = "crashed"
    /\ UNCHANGED <<table, dry_run, use_csv, continue_from, results, csvSink, jsonlSink,
                   i, calls, started, report, runs>>
    /\ UNCHANGED validateVars
    /\ UNCHANGED engineVars
    /\ UNCHANGED deviationVars

KeyboardInterrupt ==
    /\ InTryBlock
    /\ interrupted' = TRUE
    /\ pc' = "report"
    /\ UNCHANGED <<table, dry_run, use_csv, continue_from, results, csvSink, jsonlSink,
                   i, calls, started, report, runs>>
    /\ UNCHANGED validateVars
    /\ UNCHANGED engineVars
    /\ UNCHANGED deviationVars

\* generate_report, _save_summary, _print_summary, return
GenerateReport ==
    /\ pc = "report"
    /\ report' = generate_report(results)
    /\ pc' = "done"
    /\ UNCHANGED <<table, dry_run, use_csv, continue_from, results, csvSink, jsonlSink,
                   i, calls, started, interrupted, runs>>
    /\ UNCHANGED validateVars
    /\ UNCHANGED engineVars
    /\ UNCHANGED deviationVars

\* a new BatchRunner on the same input and the same output directory, with
\* a resume index of the user's choice
NewRun ==
    /\ pc \in {"done", "crashed"}
    /\ runs < MaxRuns
    /\ runs' = runs + 1
    /\ \E k \in 0..MaxRows : continue_from' = k
    /\ results' = <<>>
    /\ calls' = NoCalls
    /\ started' = <<>>
    /\ report' = NoReport
    /\ interrupted' = FALSE
    /\ i' = 0
    /\ pc' = "start"
    /\ UNCHANGED <<table, dry_run, use_csv, csvSink, jsonlSink>>
    /\ UNCHANGED validateVars
    /\ UNCHANGED engineVars
    /\ UNCHANGED deviationVars



Init ==
    /\ table \in Tables
    /\ dry_run \in BOOLEAN
    /\ use_csv \in BOOLEAN
    /\ continue_from \in 0..MaxRows
    /\ results = <<>>
    /\ csvSink = <<>>
    /\ jsonlSink = <<>>
    /\ i = 0
    /\ pc = "start"
    /\ calls = NoCalls
    /\ started = <<>>
    /\ report = NoReport
    /\ interrupted = FALSE
    /\ runs = 1
    /\ vIn = <<>>
    /\ vCons = [sigma_cap |-> 0, cash_min |-> 0, risk_asset_max |-> 0]
    /\ vOut = Null
    /\ eIn = <<>>
    /\ eOut = <<>>
    /\ dIn = <<>>
    /\ dOut = <<>>

Next ==
    \/ RunBatchStart
    \/ SkipRow
    \/ StartCase
    \/ ApiReturn
    \/ ApiFail
    \/ SaveResultRow
    \/ SaveJsonlRow
    \/ Sleep
    \/ LoopEnd
    \/ KeyboardInterrupt
    \/ GenerateReport
    \/ NewRun

Spec == Init /\ [][Next]_vars

(***************************************************************************)
(* Validator.validate on its own: a reply and a set of constraints are     *)
(* drawn, and validate is applied once.                                    *)
(***************************************************************************)
WeightsObject(m) == <<"{", "w:", "{", m, "}", "}">>

\* the stretches the replies of this specification are made of
Segments ==
    { <<>>,
      <<"t">>,
      <<"s">>,
      WeightsObject("mOK"),
      WeightsObject("mMiss"),
      <<"{", "t", "}">>,
      <<"F", "j", "s">> \o WeightsObject("mOK") \o <<"s", "F">>,
      <<"F">> \o WeightsObject("mLow") \o <<"F">>,
      <<"F", "{", "t", "}", "F">>,
      <<"{", "o:", "{", "w:", "{", "mOK", "}", "}", "}">>,
      <<"a">>,
      <<"{", "w:", "n", "}">> }

ReplyTexts == {a \o b \o c : a \in Segments, b \in Segments, c \in Segments}

ConstraintChoices ==
    { compute_constraints("A", "C3", "growth"), compute_constraints("B", "C3", "income") }

ValidateInit ==
    /\ vIn \in ReplyTexts
    /\ vCons \in ConstraintChoices
    /\ vOut = Null
    /\ eIn = <<>>
    /\ eOut = <<>>
    /\ dIn = <<>>
    /\ dOut = <<>>
    /\ table = <<>>
    /\ dry_run = FALSE
    /\ use_csv = FALSE
    /\ continue_from = 0
    /\ results = <<>>
    /\ csvSink = <<>>
    /\ jsonlSink = <<>>
    /\ i = 0
    /\ pc = "start"
    /\ calls = NoCalls
    /\ started = <<>>
    /\ report = NoReport
    /\ interrupted = FALSE
    /\ runs = 1

ValidateReply ==
    /\ vOut = Null
    /\ vOut' = Some(validate(vIn, vCons))
    /\ UNCHANGED <<vIn, vCons>>
    /\ UNCHANGED batchVars
    /\ UNCHANGED engineVars
    /\ UNCHANGED deviationVars

SpecValidate == ValidateInit /\ [][ValidateReply]_vars

(***************************************************************************)
(* validate on replies that hold one weights object, each weight written   *)
(* as a literal of the reply or left out.                                  *)
(***************************************************************************)
\* what the reply writes for each weight key ("": the key is left out)
CashLiterals == {"", "true", "5.5", "-5", "0", "5", "10"}

BondLiterals == {"", "5.5", "120", "18", "20", "25"}

EquityLiterals == {"", "5.5", "120", "50", "52"}

CommodityLiterals == {"", "5.5", "-5", "25", "27"}

WeightMember(key, lit) == IF lit = "" THEN <<>> ELSE <<key, lit>>

\* members separated by commas
JoinMembers(a, b) ==
    IF a = <<>> THEN b ELSE IF b = <<>> THEN a ELSE a \o <<",">> \o b

WeightMembers(c, b, e, m) ==
    JoinMembers(JoinMembers(WeightMember("kc:", c), WeightMember("kb:", b)),
                JoinMembers(WeightMember("ke:", e), WeightMember("km:", m)))

WeightsText(c, b, e, m) == <<"{", "w:", "{">> \o WeightMembers(c, b, e, m) \o <<"}", "}">>

\* the object alone, in a fenced block, and between two stretches of prose
Wrappings(body) ==
    { body, <<"F", "j", "s">> \o body \o <<"s", "F">>, <<"t">> \o body \o <<"t">> }

WeightReplies ==
    UNION { Wrappings(WeightsText(c, b, e, m)) :
                c \in CashLiterals, b \in BondLiterals,
                e \in EquityLiterals, m \in CommodityLiterals }

\* the constraints validate is given: computed by the rules engine, or
\* supplied by the input file in pass-through mode
WeightConstraintChoices ==
    { compute_constraints("A", "C3", "growth"),
      compute_constraints("B", "C3", "income"),
      [cash_min |-> 5, sigma_cap |-> 26000, risk_asset_max |-> 77],
      [cash_min |-> 0, sigma_cap |-> 27000, risk_asset_max |-> 75],
      [cash_min |-> 5, sigma_cap |-> 27000, risk_asset_max |-> 79],
      [cash_min |-> 10, sigma_cap |-> 27000, risk_asset_max |-> 77] }

WeightsInit ==
    /\ vIn \in WeightReplies
    /\ vCons \in WeightConstraintChoices
    /\ vOut = Null
    /\ eIn = <<>>
    /\ eOut = <<>>
    /\ dIn = <<>>
    /\ dOut = <<>>
    /\ table = <<>>
    /\ dry_run = FALSE
    /\ use_csv = FALSE
    /\ continue_from = 0
    /\ results = <<>>
    /\ csvSink = <<>>
    /\ jsonlSink = <<>>
    /\ i = 0
    /\ pc = "start"
    /\ calls = NoCalls
    /\ started = <<>>
    /\ report = NoReport
    /\ interrupted = FALSE
    /\ runs = 1

SpecWeights == WeightsInit /\ [][ValidateReply]_vars

(***************************************************************************)
(* compute_constraints on its own: a profile is drawn, in or out of the    *)
(* enumerated sets, and the engine is called on it MaxCalls times.         *)
(***************************************************************************)
Profiles ==
    (LifeStages \cup {"Z"}) \X (RiskLevels \cup {"C9"}) \X (Needs \cup {"other"})

EngineInit ==
    /\ eIn \in Profiles
    /\ eOut = <<>>
    /\ dIn = <<>>
    /\ dOut = <<>>
    /\ vIn = <<>>
    /\ vCons = [sigma_cap |-> 0, cash_min |-> 0, risk_asset_max |-> 0]
    /\ vOut = Null
    /\ table = <<>>
    /\ dry_run = FALSE
    /\ use_csv = FALSE
    /\ continue_from = 0
    /\ results = <<>>
    /\ csvSink = <<>>
    /\ jsonlSink = <<>>
    /\ i = 0
    /\ pc = "start"
    /\ calls = NoCalls
    /\ started = <<>>
    /\ report = NoReport
    /\ interrupted = FALSE
    /\ runs = 1

ComputeConstraints ==
    /\ Len(eOut) < MaxCalls
    /\ eOut' = Append(eOut, ComputeConstraintsCall(eIn[1], eIn[2], eIn[3]))
    /\ UNCHANGED eIn
    /\ UNCHANGED validateVars
    /\ UNCHANGED batchVars
    /\ UNCHANGED deviationVars

SpecRules == EngineInit /\ [][ComputeConstraints]_vars

(***************************************************************************)
(* compare_weights on its own: produced and expected weights are drawn,    *)
(* with a weight to raise, a weight to lower and the amount delta; the     *)
(* Deviation of the produced weights is taken, then that of the shifted    *)
(* weights.                                                                *)
(***************************************************************************)
ProducedLevels == {20, 30}

ExpectedLevels == {15, 25, 35}

Deltas == {5, 10, 20}

\* weight vectors a validated reply can hold: integers that sum to 100
ProducedWeights ==
    {w \in [WeightKeySet -> ProducedLevels] :
        w["w_cash"] + w["w_bond"] + w["w_equity"] + w["w_commodity"] = 100}

\* the llm_weights dict of the weight vector w
WeightsDict(w) == Dict([k \in WeightKeySet |-> IntV(w[k])])

\* w with the weight of key up raised by delta and that of key down lowered
\* by delta
Shifted(w, up, down, delta) ==
    [k \in WeightKeySet |->
        IF k = up THEN w[k] + delta ELSE IF k = down THEN w[k] - delta ELSE w[k]]

DeviationInit ==
    /\ dIn \in [produced : ProducedWeights,
                expected : [WeightKeySet -> ExpectedLevels],
                up : WeightKeySet, down : WeightKeySet, delta : Deltas]
    /\ dIn.up # dIn.down
    /\ dOut = <<>>
    /\ eIn = <<>>
    /\ eOut = <<>>
    /\ vIn = <<>>
    /\ vCons = [sigma_cap |-> 0, cash_min |-> 0, risk_asset_max |-> 0]
    /\ vOut = Null
    /\ table = <<>>
    /\ dry_run = FALSE
    /\ use_csv = FALSE
    /\ continue_from = 0
    /\ results = <<>>
    /\ csvSink = <<>>
    /\ jsonlSink = <<>>
    /\ i = 0
    /\ pc = "start"
    /\ calls = NoCalls
    /\ started = <<>>
    /\ report = NoReport
    /\ interrupted = FALSE
    /\ runs = 1

\* the weights of the next compare_weights call
NextProduced ==
    IF Len(dOut) = 0 THEN dIn.produced
    ELSE Shifted(dIn.produced, dIn.up, dIn.down, dIn.delta)

CompareWeights ==
    /\ Len(dOut) < 2
    /\ dOut' = Append(dOut, compare_weights(WeightsDict(NextProduced), dIn.expected))
    /\ UNCHANGED dIn
    /\ UNCHANGED engineVars
    /\ UNCHANGED validateVars
    /\ UNCHANGED batchVars

SpecDeviation == DeviationInit /\ [][CompareWeights]_vars

(***************************************************************************)
(* The claims.                                                             *)
(***************************************************************************)
Rows(records) == {records[j].row : j \in 1..Len(records)}

IsPrefix(a, b) == Len(a) <= Len(b) /\ SubSeq(b, 1, Len(a)) = a

\* the rows k, k+1, ..., n-1 in order (none when k >= n)
RowsFrom(k, n) == [j \in 1..(n - Min2(k, n)) |-> Min2(k, n) + j - 1]

\* in cross-check mode, the rules engine accepts the profile of tc and
\* computes constraints that are not the supplied ones
Mismatching(tc) ==
    /\ ~use_csv
    /\ validate_inputs(tc.life_stage, tc.risk_level, tc.need) = "ok"
    /\ ~validate_constraint_consistency(tc).is_consistent

\* C1: a per-case error never aborts the batch: whatever the rows and the
\* replies, no exception of a case leaves run_batch before its report.
C1_PerCaseErrorsNeverAbort == pc # "crashed"

\* C2: every result run_single returned has one of the five statuses, and
\* its status is PENDING exactly when preview mode is on and the constraint
\* step reported no mismatch (otherwise it is one of CONSTRAINT_MISMATCH,
\* API_ERROR, VALIDATION_FAILED, SUCCESS); a result, once in the results, is
\* never changed by a later step of the batch.
C2_ReturnedStatus ==
    \A j \in 1..Len(results) :
        /\ results[j].status \in BatchStatus
        /\ results[j].status = PENDING <=> (dry_run /\ results[j].constraint_match)

C2_ResultsKept ==
    runs' = runs =>
        \A j \in 1..Len(results) : Len(results') >= j /\ results'[j] = results[j]

C2_PerCaseStateMachine == [](C2_ReturnedStatus) /\ [][C2_ResultsKept]_vars

C2_Witness ==
    /\ pc = "done"
    /\ Len(results) = 2
    /\ results[1].status = VALIDATION_FAILED
    /\ results[2].status = SUCCESS

\* C3: client.chat is called at most once per case, never in preview mode
\* and never for a case whose computed constraints mismatch the supplied
\* ones; such a case is CONSTRAINT_MISMATCH in preview mode too.
C3_ExternalCallAtMostOnce ==
    /\ \A r \in 0..(total - 1) :
          /\ calls[r] <= 1
          /\ dry_run => calls[r] = 0
          /\ Mismatching(table[r + 1]) => calls[r] = 0
    /\ \A j \in 1..Len(results) :
          Mismatching(table[results[j].row + 1]) =>
              results[j].status = CONSTRAINT_MISMATCH

C3_Witness ==
    /\ dry_run
    /\ \E j \in 1..Len(results) : results[j].status = CONSTRAINT_MISMATCH

\* C4: a case whose external call failed has status API_ERROR with the error
\* text and the latency up to the failure, and nothing of validation or
\* deviation.
C4_ApiErrorCarriesLatency ==
    \A j \in 1..Len(results) :
        results[j].status = API_ERROR =>
            /\ results[j].error_message # Null
            /\ results[j].api_latency_ms # Null
            /\ results[j].validation_errors = <<>>
            /\ ~results[j].validation_success
            /\ results[j].deviation = Null

\* C5: absent user cancellation, a run that has ended has processed every
\* row at or after the resume index exactly once, in input order.
C5_EveryRowProcessedOnce ==
    (pc \in {"done", "crashed"} /\ ~interrupted) =>
        started = RowsFrom(continue_from, total)

\* C6: once a run has been interrupted, every case with a result in the
\* accumulated results has a record in the tabular sink and one in the
\* full-detail sink, and the two sinks hold records for the same cases.
C6_CompletedCasesPersisted ==
    (interrupted /\ pc \in {"report", "done"}) =>
        /\ Rows(results) \subseteq Rows(csvSink)
        /\ Rows(results) \subseteq Rows(jsonlSink)
        /\ Rows(csvSink) = Rows(jsonlSink)

\* C7: the sinks are append-only: no step, of the first run or of a resumed
\* one on the same output location, removes or overwrites a persisted record.
C7_SinksAppendOnly ==
    [][IsPrefix(csvSink, csvSink') /\ IsPrefix(jsonlSink, jsonlSink')]_vars

\* C8: after a user cancellation no further case is started, the run ends
\* with a report, and the report is over exactly the accumulated results
\* (the "No results to report" marker when there are none).
C8_ReportCoversResults ==
    /\ report.kind # "none"
    /\ report.kind = "error" <=> Len(results) = 0
    /\ report.kind = "report" =>
          /\ report.total_cases = Len(results)
          /\ \A st \in BatchStatus \ {SUCCESS} :
                st \in DOMAIN report.status_breakdown
                    <=> \E j \in 1..Len(results) : results[j].status = st
          /\ \A st \in DOMAIN report.status_breakdown :
                report.status_breakdown[st]
                    = Cardinality({j \in 1..Len(results) : results[j].status = st})

C8_Cancelled ==
    interrupted => /\ pc \in {"report", "done"}
                   /\ pc = "done" => C8_ReportCoversResults

C8_NothingStarted ==
    (interrupted /\ runs' = runs) => (started' = started /\ results' = results)

C8_CancellationStillReports == [](C8_Cancelled) /\ [][C8_NothingStarted]_vars

C8_Witness ==
    /\ interrupted
    /\ pc = "done"
    /\ total = 2
    /\ Len(results) = 1
    /\ report.kind = "report"

\* C9: cancellation takes effect between cases only: when the loop has
\* stopped, every case whose processing started has its result in the
\* results and its record in both sinks.
C9_StartedCasesRecorded ==
    pc \in {"report", "done"} =>
        \A j \in 1..Len(started) :
            /\ started[j] \in Rows(results)
            /\ started[j] \in Rows(csvSink)
            /\ started[j] \in Rows(jsonlSink)

\* the three strategies of the parsing chain, each on its own
StrategyDirect(cleaned) == json_loads(cleaned)

StrategyFenced(cleaned) ==
    IF FencedSearch(cleaned) # NoMatch
    THEN json_loads(SubSeq(cleaned, FencedSearch(cleaned)[1], FencedSearch(cleaned)[2]))
    ELSE ParseFail

StrategyBrace(cleaned) ==
    IF BraceSearch(cleaned) # NoMatch
    THEN json_loads(SubSeq(cleaned, BraceSearch(cleaned)[1], BraceSearch(cleaned)[2]))
    ELSE ParseFail

\* C10: validate returns the ParseError outcome only if none of the three
\* strategies succeeds on the reply: a fenced block whose contents do not
\* parse does not keep the brace-balanced scan from being tried.
C10_ParseErrorOnlyIfAllFail ==
    (vOut # Null /\ vOut[1].raised = "" /\ vOut[1].errors = ParseErrors) =>
        /\ ~StrategyDirect(strip(vIn)).ok
        /\ ~StrategyFenced(strip(vIn)).ok
        /\ ~StrategyBrace(strip(vIn)).ok

\* what the reply vIn writes for the weight key of token keytok ("": the key
\* is not in the reply)
WrittenLiteral(keytok) ==
    IF \E p \in 1..Len(vIn) : vIn[p] = keytok
    THEN vIn[(CHOOSE p \in 1..Len(vIn) : vIn[p] = keytok) + 1]
    ELSE ""

WEIGHT_KEY_TOKENS == <<"kc:", "kb:", "ke:", "km:">>

\* the structural violation of one key as the reply's text shows it: the key
\* is missing, its value is not an integer literal, or is outside [0,100]
WrittenViolation(a) ==
    IF WrittenLiteral(WEIGHT_KEY_TOKENS[a]) = ""
    THEN << <<"Missing weight", WEIGHT_KEYS[a]>> >>
    ELSE IF WrittenLiteral(WEIGHT_KEY_TOKENS[a]) \notin DOMAIN IntLiterals
    THEN << <<"Weight is not an integer", WEIGHT_KEYS[a]>> >>
    ELSE IF \/ IntLiterals[WrittenLiteral(WEIGHT_KEY_TOKENS[a])] < 0
            \/ IntLiterals[WrittenLiteral(WEIGHT_KEY_TOKENS[a])] > 100
    THEN << <<"Weight out of range [0,100]", WEIGHT_KEYS[a]>> >>
    ELSE <<>>

WrittenViolations ==
    WrittenViolation(1) \o WrittenViolation(2) \o WrittenViolation(3) \o WrittenViolation(4)

\* C11: structural phase: every key that is missing, not an integer or
\* outside [0,100] adds one error, in key order; with at least one such key
\* the outcome has success false, no volatility, no variance and an empty
\* per-check map, whatever the other keys hold.
C11_StructuralErrorsCollected ==
    (vOut # Null /\ vOut[1].raised = "" /\ WrittenViolations # <<>>) =>
        /\ ~vOut[1].success
        /\ vOut[1].errors = WrittenViolations
        /\ vOut[1].computed_vol = Null
        /\ vOut[1].computed_var = Null
        /\ vOut[1].constraints_satisfied = NoChecks

\* the value Python computes with for a written weight
WrittenValue(a) ==
    IF WrittenLiteral(WEIGHT_KEY_TOKENS[a]) = "true" THEN 1
    ELSE IntLiterals[WrittenLiteral(WEIGHT_KEY_TOKENS[a])]

StructuralKinds ==
    {"JSON parse error", "Missing weight", "Weight is not an integer",
     "Weight out of range [0,100]"}

\* the outcome of a reply that passed parsing and the structural checks
NumericPhaseRan ==
    /\ vOut # Null
    /\ vOut[1].raised = ""
    /\ \A j \in 1..Len(vOut[1].errors) : vOut[1].errors[j][1] \notin StructuralKinds

\* the smallest integer that is at least the square root of var, given the
\* largest integer d that is at most it
RootUp(d, var) == IF d * d = var THEN d ELSE d + 1

\* the four checks as the reply's text and the constraints decide them, in
\* order, each with the error its failure adds
C12_Checks(vol, var) ==
    << <<"sum_100", "Weights sum not 100",
           WrittenValue(1) + WrittenValue(2) + WrittenValue(3) + WrittenValue(4) = 100>>,
       <<"cash_min", "Cash weight < minimum", WrittenValue(1) >= vCons.cash_min>>,
       <<"risk_asset_max", "Risk assets > maximum",
           WrittenValue(3) + WrittenValue(4) <= vCons.risk_asset_max>>,
       <<"sigma_cap", "Portfolio volatility > cap",
           RootUp(vol, var) <= vCons.sigma_cap + 1>> >>

C12_Failed(checks) ==
    LET Fails(c) == ~c[3]
        failed == SelectSeq(checks, Fails)
    IN  [j \in 1..Len(failed) |-> <<failed[j][2], "">>]

\* C12: numeric phase: a reply that passed parsing and the structural checks
\* has volatility and variance computed, all four entries in the per-check
\* map, each the truth of its check, and exactly one error per failed check,
\* in the order sum, cash, risk assets, volatility.
C12_AllNumericChecksEvaluated ==
    NumericPhaseRan =>
        /\ vOut[1].computed_vol # Null
        /\ vOut[1].computed_var # Null
        /\ vOut[1].computed_vol[1] * vOut[1].computed_vol[1] <= vOut[1].computed_var[1]
        /\ vOut[1].computed_var[1] < (vOut[1].computed_vol[1] + 1) * (vOut[1].computed_vol[1] + 1)
        /\ LET checks == C12_Checks(vOut[1].computed_vol[1], vOut[1].computed_var[1])
           IN  /\ DOMAIN vOut[1].constraints_satisfied
                    = {"sum_100", "cash_min", "risk_asset_max", "sigma_cap"}
               /\ \A j \in 1..4 : vOut[1].constraints_satisfied[checks[j][1]] = checks[j][3]
               /\ vOut[1].errors = C12_Failed(checks)

C12_Witness ==
    /\ NumericPhaseRan
    /\ Len(vOut[1].errors) = 3
    /\ vOut[1].constraints_satisfied["cash_min"]
    /\ vOut[1].computed_vol # Null

\* C13: in every outcome validate returns (parse failure, structural failure,
\* numeric phase) success is true exactly when the errors list is empty,
\* whatever the warnings.
C13_SuccessIffNoErrors ==
    (vOut # Null /\ vOut[1].raised = "") =>
        (vOut[1].success <=> vOut[1].errors = <<>>)

C13_Witness ==
    /\ vOut # Null
    /\ vOut[1].raised = ""
    /\ vOut[1].success
    /\ vOut[1].warnings # <<>>

Carries(warning) == \E j \in 1..Len(vOut[1].warnings) : vOut[1].warnings[j] = warning

\* the warnings the boundaries call for, in the order cash, risk assets,
\* volatility; vol is the volatility rounded down, var the variance
C14_Boundaries(vol, var) ==
    << <<"Cash weight at exact minimum", WrittenValue(1) = vCons.cash_min>>,
       <<"Risk assets at exact maximum",
           WrittenValue(3) + WrittenValue(4) = vCons.risk_asset_max>>,
       <<"Portfolio volatility very close to cap",
           /\ vol < vCons.sigma_cap + 1000
           /\ RootUp(vol, var) > vCons.sigma_cap - 1000>> >>

C14_Called(boundaries) ==
    LET AtBoundary(b) == b[2]
        called == SelectSeq(boundaries, AtBoundary)
    IN  [j \in 1..Len(called) |-> called[j][1]]

\* C14: a reply that reached the numeric phase carries the cash warning iff
\* its cash weight equals cash_min, the risk-asset warning iff equity plus
\* commodity equals risk_asset_max, the volatility warning iff its
\* volatility is less than 0.001 away from sigma_cap, above or below; a
\* reply that failed the structural checks carries no warning.
C14_WarningsExactlyAtBoundaries ==
    (vOut # Null /\ vOut[1].raised = "") =>
        IF NumericPhaseRan
        THEN vOut[1].warnings
                = C14_Called(C14_Boundaries(vOut[1].computed_vol[1], vOut[1].computed_var[1]))
        ELSE vOut[1].warnings = <<>>

C14_Witness ==
    /\ NumericPhaseRan
    /\ ~vOut[1].constraints_satisfied["sigma_cap"]
    /\ vOut[1].warnings = <<"Portfolio volatility very close to cap">>

\* a reply with four integer weights in [0,100], cash at cash_min and risk
\* assets at risk_asset_max, once validated
AtBothBoundaries ==
    /\ vOut # Null
    /\ vOut[1].raised = ""
    /\ WrittenViolations = <<>>
    /\ WrittenValue(1) = vCons.cash_min
    /\ WrittenValue(3) + WrittenValue(4) = vCons.risk_asset_max

\* C15 as stated: a reply with cash weight equal to cash_min and risk assets
\* equal to risk_asset_max passes validation and carries at least one
\* boundary warning.
C15_BoundaryReplyPasses ==
    AtBothBoundaries => (vOut[1].success /\ vOut[1].warnings # <<>>)

\* C15, amended: such a reply passes the cash and the risk-asset check and
\* carries the cash and the risk-asset warning; it passes validation exactly
\* when its weights sum to 100 and its volatility is at most sigma_cap + 1e-6.
C15_BoundaryReplyWarns ==
    AtBothBoundaries =>
        /\ vOut[1].constraints_satisfied["cash_min"]
        /\ vOut[1].constraints_satisfied["risk_asset_max"]
        /\ Carries("Cash weight at exact minimum")
        /\ Carries("Risk assets at exact maximum")
        /\ vOut[1].success <=>
              /\ WrittenValue(1) + WrittenValue(2) + WrittenValue(3) + WrittenValue(4) = 100
              /\ RootUp(vOut[1].computed_vol[1], vOut[1].computed_var[1])
                    <= vCons.sigma_cap + 1

C15_Witness ==
    /\ AtBothBoundaries
    /\ vOut[1].success
    /\ Len(vOut[1].warnings) = 2

\* the profile eIn has every field in its enumerated set
ProfileInEnums == eIn[1] \in LifeStages /\ eIn[2] \in RiskLevels /\ eIn[3] \in Needs

\* stage ceiling times risk multiplier times need multiplier for the profile
\* eIn, clamped to the clip bounds, in units of 1e-4 percent
C16_ClampedRisk ==
    LET raw == RISK_ASSET_MAX_STAGE[eIn[1]] * K_RISK[eIn[2]] * K_NEED_RISKASSET[eIn[3]]
    IN  IF raw < CLIP.risk_asset_max_min * 10000 THEN CLIP.risk_asset_max_min * 10000
        ELSE IF raw > CLIP.risk_asset_max_max * 10000 THEN CLIP.risk_asset_max_max * 10000
        ELSE raw

\* C16: for every profile of the cross-product of the enumerated sets,
\* compute_constraints returns Constraints whose sigma_cap lies within
\* [sigma_cap_min, sigma_cap_max] and whose risk_asset_max is an integer
\* within [risk_asset_max_min, risk_asset_max_max], the integer part of the
\* clamped product.
C16_WithinClipBounds ==
    ProfileInEnums =>
        \A j \in 1..Len(eOut) :
            /\ eOut[j].raised = ""
            /\ eOut[j].constraints # <<>>
            /\ eOut[j].constraints[1].sigma_cap >= CLIP.sigma_cap_min
            /\ eOut[j].constraints[1].sigma_cap <= CLIP.sigma_cap_max
            /\ eOut[j].constraints[1].risk_asset_max \in Int
            /\ eOut[j].constraints[1].risk_asset_max >= CLIP.risk_asset_max_min
            /\ eOut[j].constraints[1].risk_asset_max <= CLIP.risk_asset_max_max
            /\ eOut[j].constraints[1].risk_asset_max * 10000 <= C16_ClampedRisk
            /\ C16_ClampedRisk < (eOut[j].constraints[1].risk_asset_max + 1) * 10000

C16_Witness ==
    /\ eIn = <<"A", "C2", "growth">>
    /\ Len(eOut) >= 1
    /\ eOut[1].constraints = <<[cash_min |-> 5, sigma_cap |-> 200000, risk_asset_max |-> 42]>>

\* the Constraints the formulas give for the profile eIn
C17_Formulas ==
    LET sigma == SIGMA_STAGE_MAX[eIn[1]] * M_RISK[eIn[2]]
    IN  [cash_min |-> CASH_MIN_STAGE[eIn[1]],
         sigma_cap |-> IF sigma < CLIP.sigma_cap_min * 100 THEN CLIP.sigma_cap_min
                       ELSE IF sigma > CLIP.sigma_cap_max * 100 THEN CLIP.sigma_cap_max
                       ELSE sigma \div 100,
         risk_asset_max |-> C16_ClampedRisk \div 10000]

\* C17: compute_constraints follows the formulas (cash_min the table value,
\* sigma_cap the clamp of ceiling times multiplier, risk_asset_max the
\* truncated clamp of ceiling times the two multipliers); every call on the
\* same profile returns the same Constraints; the profile A, C3, growth of
\* the example gives cash_min 5, sigma_cap 0.12, risk_asset_max 77.
C17_FollowsFormulas ==
    ProfileInEnums =>
        /\ \A j \in 1..Len(eOut) : eOut[j].constraints = <<C17_Formulas>>
        /\ \A j \in 1..Len(eOut) : eOut[j] = eOut[1]
        /\ eIn = <<"A", "C3", "growth">> =>
              \A j \in 1..Len(eOut) :
                  eOut[j].constraints
                      = <<[cash_min |-> 5, sigma_cap |-> 120000, risk_asset_max |-> 77]>>

C17_Witness ==
    /\ eIn = <<"A", "C3", "growth">>
    /\ Len(eOut) >= 2
    /\ eOut[2].constraints[1].risk_asset_max = 77

\* C18: a profile with a field outside its enumerated set is rejected: the
\* call fails with an error naming the first such field, in the order
\* life_stage, risk_level, need, and the allowed set of that field, and
\* returns no Constraints; other profiles are not rejected.
C18_RejectsInvalidProfile ==
    \A j \in 1..Len(eOut) :
        IF eIn[1] \notin LifeStages
        THEN /\ eOut[j].raised = "ValueError" /\ eOut[j].constraints = <<>>
             /\ eOut[j].field = "life_stage" /\ eOut[j].valid = LifeStages
        ELSE IF eIn[2] \notin RiskLevels
        THEN /\ eOut[j].raised = "ValueError" /\ eOut[j].constraints = <<>>
             /\ eOut[j].field = "risk_level" /\ eOut[j].valid = RiskLevels
        ELSE IF eIn[3] \notin Needs
        THEN /\ eOut[j].raised = "ValueError" /\ eOut[j].constraints = <<>>
             /\ eOut[j].field = "need" /\ eOut[j].valid = Needs
        ELSE eOut[j].raised = ""

C18_Witness ==
    /\ eIn = <<"A", "C9", "other">>
    /\ Len(eOut) >= 1
    /\ eOut[1].field = "risk_level"

\* the supplied constraints of a test case
Supplied(tc) ==
    [sigma_cap |-> tc.csv_sigma_cap, cash_min |-> tc.csv_cash_min,
     risk_asset_max |-> tc.csv_risk_asset_max]

\* the cross-check of C19 for a result of cross-check mode, given the test
\* case and what the engine computes for its profile
C19_CrossChecked(result, tc, computed) ==
    /\ result.computed_constraints = <<computed>>
    /\ result.constraint_match <=>
          /\ computed.cash_min = tc.csv_cash_min
          /\ computed.risk_asset_max = tc.csv_risk_asset_max
          /\ computed.sigma_cap - tc.csv_sigma_cap < 1
          /\ tc.csv_sigma_cap - computed.sigma_cap < 1
    /\ result.status = CONSTRAINT_MISMATCH <=> ~result.constraint_match

C19_PassedThrough(result, tc) ==
    /\ result.computed_constraints = <<Supplied(tc)>>
    /\ result.constraint_match
    /\ result.status # CONSTRAINT_MISMATCH

C19_Result(result, tc) ==
    IF use_csv THEN C19_PassedThrough(result, tc)
    ELSE C19_CrossChecked(result, tc,
                          compute_constraints(tc.life_stage, tc.risk_level, tc.need))

\* C19: with pass-through off, a result has constraint_match true iff the
\* computed cash_min and risk_asset_max equal the supplied ones and the
\* computed and the supplied sigma_cap differ by less than 1e-6, and has
\* status CONSTRAINT_MISMATCH iff constraint_match is false; in pass-through
\* mode the constraints are the supplied ones, constraint_match is true and
\* the status is never CONSTRAINT_MISMATCH.
C19_ConstraintCrossCheck ==
    \A j \in 1..Len(results) : C19_Result(results[j], table[results[j].row + 1])

C19_Witness ==
    /\ ~use_csv
    /\ Len(results) = 2
    /\ table[1].csv_sigma_cap = 120001
    /\ results[1].status = CONSTRAINT_MISMATCH
    /\ results[2].constraint_match

\* what C20 asks of a result whose reply validate rejected with the outcome
\* validation
C20_Retained(result, validation) ==
    (validation.raised = "" /\ ~validation.success) =>
        /\ result.status = VALIDATION_FAILED
        /\ result.validation_errors = validation.errors
        /\ RetainedWarnings(result) = validation.warnings
        /\ result.computed_vol = validation.computed_vol
        /\ result.deviation = Null

\* C20: the result of a case whose reply failed validation has status
\* VALIDATION_FAILED, the validator's errors, its warnings and its computed
\* volatility, and no Deviation.
C20_ValidationFailureRetained ==
    \A j \in 1..Len(results) :
        results[j].llm_raw_response # Null =>
            C20_Retained(results[j],
                         validate(results[j].llm_raw_response[1],
                                  results[j].computed_constraints[1]))

\* the Deviation's field for the asset of weight key k
DiffOf(deviation, k) ==
    CASE k = "w_cash" -> deviation.w_cash_diff
      [] k = "w_bond" -> deviation.w_bond_diff
      [] k = "w_equity" -> deviation.w_equity_diff
      [] OTHER -> deviation.w_commodity_diff

\* the weights produced are, asset by asset, the expected ones
SameWeights(produced, expected) ==
    \A k \in WeightKeySet : produced.m[k].v = expected[k]

\* deviation is what C21 says of the weights produced and expected
C21_DeviationOf(deviation, produced, expected) ==
    /\ \A k \in WeightKeySet : DiffOf(deviation, k) = produced.m[k].v - expected[k]
    /\ deviation.total_abs_diff
          = Abs(deviation.w_cash_diff) + Abs(deviation.w_bond_diff)
              + Abs(deviation.w_equity_diff) + Abs(deviation.w_commodity_diff)
    /\ \A k \in WeightKeySet : deviation.max_single_diff >= Abs(DiffOf(deviation, k))
    /\ \E k \in WeightKeySet : deviation.max_single_diff = Abs(DiffOf(deviation, k))
    /\ SameWeights(produced, expected) =>
          /\ \A k \in WeightKeySet : DiffOf(deviation, k) = 0
          /\ deviation.total_abs_diff = 0
          /\ deviation.max_single_diff = 0

C21_Result(result, tc) ==
    /\ result.deviation # Null <=> result.status = SUCCESS
    /\ result.status = SUCCESS =>
          /\ validate(result.llm_raw_response[1],
                      result.computed_constraints[1]).success
          /\ C21_DeviationOf(result.deviation[1], result.llm_weights[1], tc.expected)

\* C21: a result has a Deviation iff its status is SUCCESS, and then the
\* reply passed validation; the Deviation holds, per asset, the produced
\* minus the expected weight, total_abs_diff is the sum of the four absolute
\* differences and max_single_diff the largest of them; when the produced
\* weights are the expected ones every component is zero.
C21_DeviationOnSuccess ==
    \A j \in 1..Len(results) : C21_Result(results[j], table[results[j].row + 1])

C21_Witness ==
    /\ Len(results) = 2
    /\ results[1].status = SUCCESS
    /\ results[1].deviation[1].total_abs_diff = 0
    /\ results[2].status = SUCCESS
    /\ results[2].deviation[1].w_equity_diff < 0
    /\ results[2].deviation[1].total_abs_diff > results[2].deviation[1].max_single_diff

\* both Deviations of dIn are taken
C22_Shifted == Len(dOut) = 2

\* before the shift, the raised and the lowered weight are both over their
\* expected values
BothOver ==
    /\ dIn.produced[dIn.up] > dIn.expected[dIn.up]
    /\ dIn.produced[dIn.down] > dIn.expected[dIn.down]

\* before the shift, both are under their expected values
BothUnder ==
    /\ dIn.produced[dIn.up] < dIn.expected[dIn.up]
    /\ dIn.produced[dIn.down] < dIn.expected[dIn.down]

\* after the shift neither weight has crossed its expected value: the
\* lowered weight of BothOver is not under it, the raised weight of
\* BothUnder is not over it
SameSideAfter ==
    \/ BothOver /\ dIn.delta <= dIn.produced[dIn.down] - dIn.expected[dIn.down]
    \/ BothUnder /\ dIn.delta <= dIn.expected[dIn.up] - dIn.produced[dIn.up]

\* C22 as stated: for any delta > 0, raising one produced weight by delta and
\* lowering another by delta leaves total_abs_diff unchanged whenever both
\* weights were over, or both under, their expected values.
C22_ShiftKeepsTotal ==
    (C22_Shifted /\ (BothOver \/ BothUnder)) =>
        dOut[2].total_abs_diff = dOut[1].total_abs_diff

\* C22, amended: the shift leaves total_abs_diff unchanged whenever both
\* weights were over, or both under, their expected values and delta does
\* not carry the weight that moves towards its expected value past it.
C22_ShiftWithinSideKeepsTotal ==
    (C22_Shifted /\ SameSideAfter) =>
        dOut[2].total_abs_diff = dOut[1].total_abs_diff

C22_Witness ==
    /\ C22_Shifted
    /\ BothOver
    /\ dIn.delta = 10
    /\ dIn.produced[dIn.down] - dIn.expected[dIn.down] = 15
    /\ dOut[1].total_abs_diff > 0
    /\ dOut[2].w_cash_diff # dOut[1].w_cash_diff

\* the four statistics C23 names, over data
C23_Statistics(stats, data) ==
    /\ {"mean", "median", "max", "std"} \subseteq DOMAIN stats
    /\ stats.mean = mean(data)
    /\ stats.median = median(data)
    /\ stats.max = MaxSeq(data)
    /\ stats.std = IF Len(data) > 1 THEN stdev(data) ELSE 0

\* the deviation statistics C23 names, over the SUCCESS results passed
C23_DeviationStatistics(ds, passed) ==
    /\ ds # Null
    /\ ds[1].count = Len(passed)
    /\ C23_Statistics(ds[1].total_abs_diff, TotalDiffs(passed))
    /\ C23_Statistics(ds[1].max_single_diff, MaxDiffs(passed))
    /\ ds[1].perfect_match_count
          = Cardinality({j \in 1..Len(passed) : passed[j].deviation[1].total_abs_diff = 0})
    /\ ds[1].within_5_pct_count
          = Cardinality({j \in 1..Len(passed) : passed[j].deviation[1].total_abs_diff <= 5})
    /\ ds[1].within_10_pct_count
          = Cardinality({j \in 1..Len(passed) : passed[j].deviation[1].total_abs_diff <= 10})

C23_StatusCountsSum(breakdown, statuses) ==
    SumSeq([j \in 1..Len(statuses) |->
               IF statuses[j] \in DOMAIN breakdown THEN breakdown[statuses[j]] ELSE 0])

\* C23: the final report's deviation statistics are taken over the SUCCESS
\* results only and hold, for the total absolute deviation and for the
\* maximum single deviation alike, the mean, the median, the maximum and the
\* sample standard deviation, with the count of perfect matches and of the
\* cases within each threshold; its status counts sum to the number of
\* results.
C23_ReportStatistics ==
    (pc = "done" /\ report.kind = "report") =>
        /\ C23_StatusCountsSum(report.status_breakdown,
                               <<PENDING, SUCCESS, VALIDATION_FAILED, API_ERROR,
                                 CONSTRAINT_MISMATCH>>)
              = Len(results)
        /\ Len(Successful(results)) > 0 =>
              C23_DeviationStatistics(report.deviation_statistics, Successful(results))

RECURSIVE SumOver(_, _, _)
\* the sum of the field of the entries of groups for the keys in keys
SumOver(groups, keys, field) ==
    IF keys = {} THEN 0
    ELSE LET g == CHOOSE g \in keys : TRUE
         IN  groups[g][field] + SumOver(groups, keys \ {g}, field)

\* the places in rs of the results whose test case has value for param, and
\* of those among them that passed
C24_Members(rs, param, value) ==
    {j \in 1..Len(rs) : table[rs[j].row + 1][param] = value}

C24_Passed(rs, members) == {j \in members : rs[j].status = SUCCESS}

RECURSIVE C24_TotalDiff(_, _)
C24_TotalDiff(rs, places) ==
    IF places = {} THEN 0
    ELSE LET j == CHOOSE j \in places : TRUE
         IN  rs[j].deviation[1].total_abs_diff + C24_TotalDiff(rs, places \ {j})

\* entry is the breakdown entry of the group members of rs
C24_Group(entry, rs, members, passed) ==
    /\ entry.total = Cardinality(members)
    /\ entry.pass = Cardinality(passed)
    /\ entry.avg_diff = Null <=> passed = {}
    /\ passed # {} =>
          entry.avg_diff
              = Some(RoundDiv(100 * C24_TotalDiff(rs, passed), Cardinality(passed)))

\* groups is the breakdown of rs by param
C24_Dimension(groups, rs, param) ==
    /\ DOMAIN groups = {table[rs[j].row + 1][param] : j \in 1..Len(rs)}
    /\ \A value \in DOMAIN groups :
          C24_Group(groups[value], rs, C24_Members(rs, param, value),
                    C24_Passed(rs, C24_Members(rs, param, value)))
    /\ SumOver(groups, DOMAIN groups, "total") = Len(rs)
    /\ SumOver(groups, DOMAIN groups, "pass")
          = Cardinality({j \in 1..Len(rs) : rs[j].status = SUCCESS})

\* the places in rs of the results that are neither SUCCESS nor PENDING
C24_FailedPlaces(rs) == {j \in 1..Len(rs) : rs[j].status \notin {SUCCESS, PENDING}}

\* failed lists exactly those results, in the order of rs: its k-th entry is
\* of the result that has k - 1 failed results before it
C24_FailedList(failed, rs) ==
    /\ Len(failed) = Cardinality(C24_FailedPlaces(rs))
    /\ \A j \in C24_FailedPlaces(rs) :
          LET k == Cardinality({h \in C24_FailedPlaces(rs) : h <= j})
          IN  /\ failed[k].row = rs[j].row
              /\ failed[k].status = rs[j].status
              /\ failed[k].errors = rs[j].validation_errors
              /\ failed[k].error_message = rs[j].error_message

\* C24: the report's breakdown groups all results by life_stage, by
\* risk_level and by need, each on its own; in each dimension the group
\* totals sum to the number of results and the pass counts to the number of
\* SUCCESS results, a group's mean deviation is over its SUCCESS results and
\* null exactly when it has none; the failed-case list holds exactly the
\* results that are neither SUCCESS nor PENDING, in processing order.
C24_ReportBreakdown ==
    (pc = "done" /\ report.kind = "report") =>
        /\ DOMAIN report.breakdown = {"by_life_stage", "by_risk_level", "by_need"}
        /\ C24_Dimension(report.breakdown.by_life_stage, results, "life_stage")
        /\ C24_Dimension(report.breakdown.by_risk_level, results, "risk_level")
        /\ C24_Dimension(report.breakdown.by_need, results, "need")
        /\ C24_FailedList(report.failed_cases, results)

C24_Witness ==
    /\ pc = "done"
    /\ report.kind = "report"
    /\ Len(results) = 2
    /\ DOMAIN report.breakdown.by_life_stage = {"A", "B"}
    /\ DOMAIN report.breakdown.by_need = {"income"}
    /\ report.breakdown.by_need["income"].pass = 1
    /\ report.breakdown.by_life_stage["A"].avg_diff = Null
    /\ report.breakdown.by_life_stage["B"].avg_diff # Null
    /\ Len(report.failed_cases) = 1
    /\ report.failed_cases[1].row = 0

\* C25: validate returns a ValidationOutcome for every reply text and never
\* raises: a reply that is JSON but not an object, or whose "weights" member
\* is not an object, gets a failed outcome with errors.
C25_ValidateNeverRaises ==
    vOut # Null =>
        /\ vOut[1].raised = ""
        /\ (~vOut[1].success) => vOut[1].errors # <<>>

====
